---- MODULE Spec2Model ----
(***************************************************************************)
(* A model of the mycutils library as it is compiled into src/main.c: the  *)
(* raw-mode line editor (scans, scanc_nowait, sfmt, sdelelem) and the      *)
(* frame timer (start_timer, check_timer, timestamp).                      *)
(*                                                                         *)
(* Heap blocks are sequences of cells, a cell being a byte 0..255 or       *)
(* Uninit for a cell malloc() handed out and nobody wrote.  A C string is  *)
(* the cells of a block before its first zero cell.                        *)
(*                                                                         *)
(* Unsigned machine integers are carried by their two's-complement         *)
(* representative: the integer r stands for the unsigned value congruent   *)
(* to r modulo 2^w, so r < 0 stands for r + 2^w, a value above every       *)
(* non-negative representative.                                            *)
(***************************************************************************)
EXTENDS Integers, Sequences, FiniteSets, TLC

(* ------------------------------ bounds -------------------------------- *)

\* Number of raw reads one scans call is followed through.
MaxKeys == 4

(* ----------------------------- constants ------------------------------ *)

\* The backspace key code tested by scans.
BACKSPACE == 127

\* '\n'
NEWLINE == 10

\* A cell of a malloc()ed block that has not been written.
Uninit == -1

\* Bytes the input device delivers: NUL, a control character (^A), Enter,
\* the letter 'a' and backspace.
Keys == {0, 1, NEWLINE, 97, BACKSPACE}

\* Values an unwritten cell may turn out to hold.
GarbageBytes == {0, 63}

\* Strings an out-of-bounds or uninitialised read may produce.
GarbageStrs == {<<>>, <<63>>, <<63, 63>>}

(* --------------------------- C string helpers ------------------------- *)

\* a < b on unsigned values carried by their representatives.
ULess(a, b) ==
    IF (a >= 0) = (b >= 0) THEN a < b ELSE a >= 0

\* Whether a block holds a terminator.
HasNul(b) == \E i \in 1..Len(b) : b[i] = 0

\* strlen(): the number of cells before the first zero cell.
strlen(b) ==
    (CHOOSE i \in 1..Len(b) : b[i] = 0 /\ \A j \in 1..(i - 1) : b[j] # 0) - 1

\* The characters of the C string held in a block.
CStr(b) == SubSeq(b, 1, strlen(b))

\* A block whose unwritten cells hold the bytes f assigns them.
Resolve(b, f) == [i \in 1..Len(b) |-> IF b[i] = Uninit THEN f[i] ELSE b[i]]

\* sfmt(sp, "%s", s): a fresh block of strlen(s) + 1 cells.
sfmt_s(s) == CStr(s) \o <<0>>

\* A sfmt that loses the %c argument.
sfmt_sc_drop(s, c) == CStr(s) \o <<0>>

\* sfmt(sp, "%s%c", s, c): vsnprintf counts the %c byte even when it is 0,
\* so the block has strlen(s) + 2 cells.
sfmt_sc(s, c) == CStr(s) \o <<c, 0>>

\* sfmt(sp, "%s%s", a, b)
sfmt_ss(a, b) == CStr(a) \o CStr(b) \o <<0>>

\* malloc(n) for a request carried by its representative: a request of
\* n >= 0 bytes yields n cells; a negative representative is a request
\* above PTRDIFF_MAX, which fails and yields NULL, a block of no cells.
malloc(n) == IF n < 0 THEN <<>> ELSE [i \in 1..n |-> Uninit]

\* strlen(*sp) - 1 passed as the unsigned parameter elem: the low 32 bits
\* of the size_t difference, so 0 - 1 arrives as UINT_MAX (representative
\* -1).
LastElem(sp) == strlen(sp) - 1

\* sdelelem(sp, elem) up to the two NUL stores: the blocks to_elem and
\* from_elem as the loop and the stores leave them, and whether a store
\* fell outside them.  Cell c of the C code is cell c + 1 here.
sdelelem(sp, elem) ==
    LET len      == strlen(sp)
        toReq    == elem + 1
        fromReq  == IF elem < 0 THEN -1 ELSE len - elem
        to0      == malloc(toReq)
        from0    == malloc(fromReq)
        toW      == {c \in 0..(len - 1) : ULess(c, elem)}
        fromW    == {c \in 0..(len - 1) : ULess(elem, c)}
        fromNul  == len - elem - 1
        to_elem  == [i \in 1..Len(to0) |->
                        IF i - 1 = elem THEN 0
                        ELSE IF (i - 1) \in toW THEN sp[i]
                        ELSE Uninit]
        from_elem == [i \in 1..Len(from0) |->
                        IF i - 1 = fromNul THEN 0
                        ELSE IF (i - 1) \in fromW THEN sp[i]
                        ELSE Uninit]
    IN  [ to_elem   |-> to_elem,
          from_elem |-> from_elem,
          oob |-> \/ \E c \in toW : c >= Len(to0)
                  \/ \E c \in fromW : c >= Len(from0)
                  \/ elem \notin 0..(Len(to0) - 1)
                  \/ fromNul \notin 0..(Len(from0) - 1) ]

\* The strings a reader of the block can find in it: the C string under
\* every value the unwritten cells may hold, and past the block's end when
\* no cell holds a terminator.
ReadStr(b) ==
    LET R == {Resolve(b, f) : f \in [1..Len(b) -> GarbageBytes]}
    IN  {CStr(r) : r \in {x \in R : HasNul(x)}}
        \cup {r \o g : r \in {x \in R : ~HasNul(x)}, g \in GarbageStrs}

(* ------------------------------- state -------------------------------- *)

VARIABLES
    pc,       \* position of the program
    proc,     \* "running", "exit_failure", "exit_success" or "crashed"
    buf,      \* scans: the block *buf
    btemp,    \* scans: the block btemp
    userin,   \* scans: the char last returned by scanc_nowait
    shown,    \* the text fprintf_clear last drew on the prompt line
    result,   \* the string the caller of scans finds in *buf
    ub,       \* an access outside an allocated block has been made
    keys,     \* the chars scanc_nowait returned to this scans call, in order
    term,     \* the input device's termios settings
    old,      \* scanc_nowait: struct termios old
    ch,       \* scanc_nowait: char buf
    pre,      \* the settings of the device when scanc_nowait was entered
    calls,    \* the system calls the current scanc_nowait call has made,
              \* each with whether it succeeded
    diag,     \* the perror() messages the current scanc_nowait call wrote
    heap,     \* the blocks scans, fprintf_clear and sdelelem hold, by the
              \* pointer that holds each, with what went wrong in freeing
    clock,    \* the reading CLOCK_REALTIME gives now
    my_timer, \* the caller's struct timespec
    prev_timer, \* what my_timer held when start_timer was last entered
    current,  \* check_timer: struct timespec current
    wait_time,\* check_timer: the threshold of the last query
    answer,   \* check_timer: the value the last query returned
    tlast,    \* the timer operation made last, with its clock read's fate
    errlog,   \* the messages the timer functions wrote to stderr
    framecount, \* main: int framecount
    is_running, \* main: bool is_running
    fs,       \* main: the stream fs, "none", "open" or "closed"
    file,     \* the frame numbers of the lines written to fs, in order
    closes,   \* the number of fclose calls made on fs
    ticks,    \* the number of times the clock has advanced
    tcall,    \* the last timestamp() call: whether time() and ctime_r()
              \* succeeded in it
    tstamp,   \* the way the last timestamp() call ended
    failed,   \* some library call has reported a failure
    sp,       \* sdelelem, sdelchar: the block *sp
    sp0,      \* the string *sp held when the function was called
    elem,     \* sdelelem: unsigned elem
    remove,   \* sdelchar: char remove
    cidx,     \* sdelchar: unsigned c
    stream,   \* the bytes of the file behind the FILE* readfsc reads
    fpos,     \* the number of bytes of it consumed
    ferr,     \* the stream's error indicator
    cbuf,     \* readfsc: the char *buf
    fgot,     \* what the last fgetc returned: a byte 0..255 or EOF
    ret,      \* what the last readfsc call returned
    char_signed \* whether char is a signed type in this build

edVars == <<buf, btemp, userin, shown, result, keys, term, old, ch, pre,
            calls, diag, heap>>

tmVars == <<clock, my_timer, prev_timer, current, wait_time, answer, tlast,
            errlog>>

mnVars == <<framecount, is_running, fs, file, closes, ticks, tcall, tstamp,
            failed>>

stVars == <<sp, sp0, elem, remove, cidx>>

fsVars == <<stream, fpos, ferr, cbuf, fgot, ret, char_signed>>

vars == <<pc, proc, ub, edVars, tmVars, mnVars, stVars, fsVars>>

\* struct termios, by the members scanc_nowait touches; other stands for
\* every flag it does not name.
Termios == [icanon : BOOLEAN, echo : BOOLEAN, vmin : {0, 1, 4},
            vtime : {0, 5}, other : BOOLEAN]

\* The settings a device can be in when scans is called: some flag
\* scanc_nowait does not name is set, and VMIN is not 0.
DeviceSettings == {t \in Termios : t.other /\ t.vmin # 0}

\* struct termios old = {0}
ZeroTermios ==
    [icanon |-> FALSE, echo |-> FALSE, vmin |-> 0, vtime |-> 0,
     other |-> FALSE]

\* The line-discipline members of a termios.
Discipline(t) == <<t.icanon, t.echo, t.vmin, t.vtime>>

(* -------------------------------- heap -------------------------------- *)

\* No block is allocated.
EmptyHeap == [live |-> {}, lost |-> 0, twice |-> FALSE]

\* free(p): the block p points to is given back; a pointer that holds no
\* block has been freed already.
free(h, p) ==
    [h EXCEPT !.live = h.live \ {p},
              !.twice = h.twice \/ p \notin h.live]

\* p = malloc(...): p holds a fresh block; a block p still held is lost.
alloc(h, p) ==
    [h EXCEPT !.live = h.live \cup {p},
              !.lost = h.lost + (IF p \in h.live THEN 1 ELSE 0)]

\* The heap after sdelelem(&btemp, elem): to_elem and from_elem are
\* allocated (from_elem is NULL when its malloc failed, as it does for the
\* request strlen - UINT_MAX, and free(NULL) does nothing), *sp is freed
\* and allocated anew by sfmt, and both parts are freed.
sdelelem_heap(h, fromOk) ==
    LET h1 == alloc(h, "to_elem")
        h2 == IF fromOk THEN alloc(h1, "from_elem") ELSE h1
        h3 == alloc(free(h2, "btemp"), "btemp")
        h4 == free(h3, "to_elem")
    IN  IF fromOk THEN free(h4, "from_elem") ELSE h4

(* --------------------------- scanc_nowait ----------------------------- *)

\* char buf = 0; struct termios old = {0}; tcgetattr(0, &old)
scanc_tcgetattr ==
    /\ pc = "tcgetattr"
    /\ \E ok \in BOOLEAN :
        /\ old' = IF ok THEN term ELSE ZeroTermios
        /\ diag' = IF ok THEN <<>> ELSE <<"tcsetattr()">>
        /\ calls' = <<[call |-> "tcgetattr", ok |-> ok]>>
    /\ ch' = 0
    /\ pre' = term
    /\ pc' = "setraw"
    /\ UNCHANGED <<proc, buf, btemp, userin, shown, result, ub, keys, term>>
    /\ UNCHANGED <<heap, tmVars, mnVars, stVars, fsVars>>

\* old.c_lflag &= ~ICANON; old.c_lflag &= ~ECHO; old.c_cc[VMIN] = 1;
\* old.c_cc[VTIME] = 0; tcsetattr(0, TCSANOW, &old)
scanc_setraw ==
    /\ pc = "setraw"
    /\ old' = [old EXCEPT !.icanon = FALSE, !.echo = FALSE,
                          !.vmin = 1, !.vtime = 0]
    /\ \E ok \in BOOLEAN :
        /\ term' = IF ok THEN old' ELSE term
        /\ diag' = IF ok THEN diag ELSE Append(diag, "tcsetattr ICANON")
        /\ calls' = Append(calls, [call |-> "tcsetattr TCSANOW", ok |-> ok])
    /\ pc' = "read"
    /\ UNCHANGED <<proc, buf, btemp, userin, shown, result, ub, keys, ch,
                   pre>>
    /\ UNCHANGED <<heap, tmVars, mnVars, stVars, fsVars>>

\* A scanc_nowait that returns at once when read() fails.
AfterRead_early(n) == IF n < 0 THEN "dispatch" ELSE "restore"

\* Where scanc_nowait goes after read() returned n.
AfterRead(n) == "restore"

\* read(0, &buf, 1): n = 1 stores a byte, n = 0 is end of input, n = -1 an
\* error; the last two leave buf at 0.
scanc_read ==
    /\ pc = "read"
    /\ Len(keys) < MaxKeys
    /\ \E n \in {-1, 0, 1} :
        /\ \/ n = 1 /\ \E k \in Keys : ch' = k
           \/ n < 1 /\ ch' = ch
        /\ diag' = IF n < 0 THEN Append(diag, "read()") ELSE diag
        /\ pc' = AfterRead(n)
        /\ calls' = Append(calls, [call |-> "read", ok |-> n >= 0])
    /\ keys' = Append(keys, ch')
    /\ UNCHANGED <<proc, buf, btemp, userin, shown, result, ub, term, old,
                   pre>>
    /\ UNCHANGED <<heap, tmVars, mnVars, stVars, fsVars>>

\* old.c_lflag |= ICANON; old.c_lflag |= ECHO;
\* tcsetattr(0, TCSADRAIN, &old); return (buf);
scanc_restore ==
    /\ pc = "restore"
    /\ old' = [old EXCEPT !.icanon = TRUE, !.echo = TRUE]
    /\ \E ok \in BOOLEAN :
        /\ term' = IF ok THEN old' ELSE term
        /\ diag' = IF ok THEN diag ELSE Append(diag, "tcsetattr ~ICANON")
        /\ calls' = Append(calls, [call |-> "tcsetattr TCSADRAIN", ok |-> ok])
    /\ userin' = ch
    /\ pc' = "dispatch"
    /\ UNCHANGED <<proc, buf, btemp, shown, result, ub, keys, ch, pre>>
    /\ UNCHANGED <<heap, tmVars, mnVars, stVars, fsVars>>

(* ------------------------------- scans -------------------------------- *)

\* A switch that leaves the loop on the zero char as it does on Enter.
Dispatch_nul_ends(c) ==
    IF c = BACKSPACE THEN "backspace"
    ELSE IF c = NEWLINE \/ c = 0 THEN "enter"
    ELSE "default"

\* The branch of the switch in scans a char takes.
Dispatch(c) ==
    IF c = BACKSPACE THEN "backspace"
    ELSE IF c = NEWLINE THEN "enter"
    ELSE "default"

\* *buf = malloc(sizeof(char)); btemp = malloc(sizeof(char));
\* btemp[0] = '\0';
scans_init ==
    /\ pc = "entry"
    /\ buf' = malloc(1)
    /\ btemp' = <<0>>
    /\ pc' = "prompt"
    /\ UNCHANGED <<proc, userin, shown, result, ub, keys, term, old, ch,
                   pre, calls, diag>>
    /\ heap' = alloc(alloc(heap, "buf"), "btemp")
    /\ UNCHANGED <<tmVars, mnVars, stVars, fsVars>>

\* scans: char* prompt, the string main passes ("> " stands for it).
prompt == <<62, 32, 0>>

\* A fprintf_clear that draws its first string argument only.
Drawn_first(p, b) == CStr(p)

\* The text fprintf_clear(fs, "%s%s", p, b) leaves on the cleared line:
\* the string vsnprintf formats into its block.
Drawn(p, b) == CStr(sfmt_ss(p, b))

\* fprintf_clear(stdout, "%s%s", prompt, btemp): the line is cleared and
\* the prompt and the string in btemp are drawn.
fprintf_clear ==
    /\ pc = "prompt"
    /\ shown' = Drawn(prompt, btemp)
    /\ pc' = "tcgetattr"
    /\ UNCHANGED <<proc, buf, btemp, userin, result, ub, keys, term, old,
                   ch, pre, calls, diag>>
    /\ heap' = free(alloc(heap, "prompt"), "prompt")
    /\ UNCHANGED <<tmVars, mnVars, stVars, fsVars>>

\* case 127: sdelelem(&btemp, strlen(btemp) - 1).  When no store fell
\* outside a block, to_elem and from_elem are joined by sfmt into the new
\* btemp.  When one did, the behaviour is undefined: the process is
\* killed, or it goes on with whatever the damaged heap yields.
scans_backspace ==
    /\ pc = "dispatch"
    /\ Dispatch(userin) = "backspace"
    /\ LET r == sdelelem(btemp, LastElem(btemp))
       IN  IF r.oob
           THEN /\ ub' = TRUE
                /\ \/ /\ proc' = "crashed"
                      /\ pc' = "halt"
                      /\ btemp' = btemp
                   \/ /\ proc' = proc
                      /\ pc' = "prompt"
                      /\ \E g \in GarbageStrs : btemp' = g \o <<0>>
           ELSE /\ ub' = ub
                /\ proc' = proc
                /\ pc' = "prompt"
                /\ \E t \in ReadStr(r.to_elem), f \in ReadStr(r.from_elem) :
                       btemp' = sfmt_ss(t \o <<0>>, f \o <<0>>)
    /\ UNCHANGED <<buf, userin, shown, result, keys, term, old, ch, pre,
                   calls, diag>>
    /\ heap' = sdelelem_heap(heap, LastElem(btemp) >= 0)
    /\ UNCHANGED <<tmVars, mnVars, stVars, fsVars>>

\* case '\n': break; the loop ends, btemp is freed and the caller is left
\* with *buf.
scans_enter ==
    /\ pc = "dispatch"
    /\ Dispatch(userin) = "enter"
    /\ \E r \in ReadStr(buf) : result' = r
    /\ pc' = "returned"
    /\ UNCHANGED <<proc, buf, btemp, userin, shown, ub, keys, term, old,
                   ch, pre, calls, diag>>
    /\ heap' = free(heap, "btemp")
    /\ UNCHANGED <<tmVars, mnVars, stVars, fsVars>>

\* default: free(*buf); sfmt(buf, "%s%c", btemp, userin); free(btemp);
\* sfmt(&btemp, "%s", *buf);
scans_default ==
    /\ pc = "dispatch"
    /\ Dispatch(userin) = "default"
    /\ buf' = sfmt_sc(btemp, userin)
    /\ btemp' = sfmt_s(buf')
    /\ pc' = "prompt"
    /\ UNCHANGED <<proc, userin, shown, result, ub, keys, term, old, ch,
                   pre, calls, diag>>
    /\ heap' = alloc(free(alloc(free(heap, "buf"), "buf"), "btemp"),
                     "btemp")
    /\ UNCHANGED <<tmVars, mnVars, stVars, fsVars>>


(* ------------------------------- timer -------------------------------- *)

\* Nanoseconds in a second.
NANOS_PER_SEC == 1000000000

\* main: nanos_per_frame = NANOS_PER_SEC / 60
nanos_per_frame == NANOS_PER_SEC \div 60

\* Readings of the clock: normalised instants of two consecutive seconds,
\* at the start, one nanosecond in and at the last nanosecond of each.
Instants == [tv_sec : 0..1, tv_nsec : {0, 1, NANOS_PER_SEC - 1}]

\* A struct timespec nobody has stored into.
NoInstant == [tv_sec |-> Uninit, tv_nsec |-> Uninit]

\* 0 <= tv_nsec < NANOS_PER_SEC
Normalised(t) == t.tv_nsec >= 0 /\ t.tv_nsec < NANOS_PER_SEC

\* a is not later than b.
NotLater(a, b) ==
    \/ a.tv_sec < b.tv_sec
    \/ a.tv_sec = b.tv_sec /\ a.tv_nsec <= b.tv_nsec

\* The nanoseconds from a to b.
Nanos(a, b) ==
    (b.tv_sec - a.tv_sec) * NANOS_PER_SEC + (b.tv_nsec - a.tv_nsec)

\* Thresholds queried: 0, the frame period, and every distance between two
\* readings together with its two neighbours.
WaitTimes ==
    {w \in {Nanos(a, b) + e : a \in Instants, b \in Instants,
                              e \in {-1, 0, 1}} : w >= 0}
    \cup {0, nanos_per_frame}

\* A check_timer whose comparison is strict: at the threshold it answers
\* false.
check_timer_strict(start, cur, wait) ==
    LET sum == (cur.tv_sec - start.tv_sec) * NANOS_PER_SEC
               + (cur.tv_nsec - start.tv_nsec)
    IN  IF ULess(sum, wait) \/ sum = wait THEN FALSE ELSE TRUE

\* check_timer after its clock read: elapsed is the member-wise difference
\* and the signed sum is compared with the uint64_t wait_time as unsigned.
check_timer_result(start, cur, wait) ==
    LET elapsed == [tv_sec  |-> cur.tv_sec - start.tv_sec,
                    tv_nsec |-> cur.tv_nsec - start.tv_nsec]
    IN  IF ULess(elapsed.tv_sec * NANOS_PER_SEC + elapsed.tv_nsec, wait)
        THEN FALSE
        ELSE TRUE

\* A clock read that stores only into a timespec nobody stored into.
clock_gettime_keep(ts, now) == IF ts = NoInstant THEN now ELSE ts

\* What clock_gettime(CLOCK_REALTIME, ts) leaves in *ts on success.
clock_gettime(ts, now) == now

\* A timestamp() that does not look at what time() returned.
timestamp_unchecked(time_ok, conv_ok) ==
    IF ~conv_ok THEN {"no_string"} ELSE {"killed", "stamp"}

\* The ways a call of timestamp() ends, given whether time() and ctime_r()
\* succeed in it.  A failed time() ends the process before stamp is used;
\* a ctime_r that cannot convert returns NULL without storing.  Otherwise
\* ctime_r writes through stamp, which was never assigned: the process is
\* killed, or the write lands somewhere and timestamp goes on to return
\* its copy.
timestamp_ends(time_ok, conv_ok) ==
    IF ~time_ok THEN {"no_time"}
    ELSE IF ~conv_ok THEN {"no_string"}
    ELSE {"killed", "stamp"}

\* The ways a call of timestamp() ends.
timestamp ==
    UNION {timestamp_ends(t, v) : t \in BOOLEAN, v \in BOOLEAN}

\* CLOCK_REALTIME moves: forwards as time passes, to any reading when it is
\* set.
clock_step ==
    /\ pc = "timer"
    /\ \E t \in Instants \ {clock} : clock' = t
    /\ tlast' = "clock"
    /\ UNCHANGED <<pc, proc, ub, edVars, mnVars, stVars, fsVars, my_timer,
                   prev_timer, current,
                   wait_time, answer, errlog>>

\* start_timer(&my_timer)
start_timer ==
    /\ pc = "timer"
    /\ prev_timer' = my_timer
    /\ \/ /\ my_timer' = clock_gettime(my_timer, clock)
          /\ tlast' = "start"
          /\ UNCHANGED <<pc, proc, ub, errlog>>
       \/ /\ my_timer' = my_timer
          /\ tlast' = "start_failed"
          /\ pc' = "halt"
          /\ \E t \in timestamp :
               CASE t = "no_time" ->
                      /\ errlog' = Append(errlog, "timestamp: no time")
                      /\ proc' = "exit_failure"
                      /\ ub' = ub
                 [] t = "no_string" ->
                      /\ errlog' = Append(errlog, "timestamp: no string")
                      /\ proc' = "exit_failure"
                      /\ ub' = TRUE
                 [] t = "killed" ->
                      /\ errlog' = errlog
                      /\ proc' = "crashed"
                      /\ ub' = TRUE
                 [] t = "stamp" ->
                      /\ errlog' = Append(errlog, "start_timer")
                      /\ proc' = "exit_failure"
                      /\ ub' = TRUE
    /\ UNCHANGED <<edVars, mnVars, stVars, fsVars, clock, current, wait_time,
                   answer>>

\* A check_timer that restarts the caller's timer at the reading it took.
check_timer_restart(ts, cur) == cur

\* What the caller's timespec holds when check_timer returns: start is a
\* parameter passed by value, and the function stores into current and
\* elapsed only.
check_timer_caller(ts, cur) == ts

\* check_timer(my_timer, wait): the result of clock_gettime is not looked
\* at, so after a failed read current holds whatever the stack held.
check_timer ==
    /\ pc = "timer"
    /\ my_timer # NoInstant
    /\ \E w \in WaitTimes :
        /\ wait_time' = w
        /\ \/ /\ current' = clock_gettime(current, clock)
              /\ tlast' = "check"
           \/ /\ \E g \in Instants : current' = g
              /\ tlast' = "check_failed"
        /\ answer' = check_timer_result(my_timer, current', w)
    /\ my_timer' = check_timer_caller(my_timer, current')
    /\ UNCHANGED <<pc, proc, ub, edVars, mnVars, stVars, fsVars, clock,
                   prev_timer, errlog>>

\* main has not begun.
MainIdle ==
    /\ framecount = 0
    /\ is_running = FALSE
    /\ fs = "none"
    /\ file = <<>>
    /\ closes = 0
    /\ ticks = 0
    /\ tcall = [time_ok |-> TRUE, conv_ok |-> TRUE]
    /\ tstamp = "none"
    /\ failed = FALSE

\* No string function has been called.
StrIdle ==
    /\ sp = <<>>
    /\ sp0 = <<>>
    /\ elem = 0
    /\ remove = 0
    /\ cidx = 0

\* No stream is being read.
FileIdle ==
    /\ stream = <<>>
    /\ fpos = 0
    /\ ferr = FALSE
    /\ cbuf = 0
    /\ fgot = 0
    /\ ret = "none"
    /\ char_signed = TRUE

\* A timer driven by any sequence of starts and queries on any clock.
InitTimer ==
    /\ MainIdle
    /\ StrIdle
    /\ FileIdle
    /\ pc = "timer"
    /\ proc = "running"
    /\ ub = FALSE
    /\ buf = <<>>
    /\ btemp = <<>>
    /\ userin = 0
    /\ shown = <<>>
    /\ result = <<>>
    /\ keys = <<>>
    /\ term \in {t \in DeviceSettings : t.icanon /\ t.echo /\ t.vmin = 1
                                        /\ t.vtime = 0}
    /\ old = ZeroTermios
    /\ ch = 0
    /\ pre = term
    /\ calls = <<>>
    /\ diag = <<>>
    /\ heap = EmptyHeap
    /\ clock \in Instants
    /\ my_timer = NoInstant
    /\ prev_timer = NoInstant
    /\ current = NoInstant
    /\ wait_time = 0
    /\ answer = FALSE
    /\ tlast = "none"
    /\ errlog = <<>>

NextTimer ==
    \/ clock_step
    \/ start_timer
    \/ check_timer

SpecTimer == InitTimer /\ [][NextTimer]_vars

(* ------------------- check_timer at full word width ------------------- *)

\* A 64-bit quantity is carried by three base-NANOS_PER_SEC digits
\* <<d2, d1, d0>>, most significant first: the value
\* d2 * 10^18 + d1 * 10^9 + d0.

\* The largest int: a sum computed in 32-bit arithmetic.
INT_MAX == <<0, 2, 147483647>>

\* The largest value of time_t and long, the types of the members of
\* struct timespec elapsed: 2^63 - 1.
LONG_MAX == <<9, 223372036, 854775807>>

\* 2^64, the modulus of uint64_t.
ULONG_MODULUS == <<18, 446744073, 709551616>>

\* x < y on digit triples.
WLess(x, y) ==
    \/ x[1] < y[1]
    \/ x[1] = y[1] /\ x[2] < y[2]
    \/ x[1] = y[1] /\ x[2] = y[2] /\ x[3] < y[3]

\* x - y on digit triples, for y not above x.
WSub(x, y) ==
    LET d0 == x[3] - y[3]
        b0 == IF d0 < 0 THEN 1 ELSE 0
        d1 == x[2] - y[2] - b0
        b1 == IF d1 < 0 THEN 1 ELSE 0
    IN  <<x[1] - y[1] - b1, d1 + b1 * NANOS_PER_SEC, d0 + b0 * NANOS_PER_SEC>>

\* The digits of sec * NANOS_PER_SEC + nsec, for a sum that is not
\* negative and -NANOS_PER_SEC < nsec < NANOS_PER_SEC.
WNanos(sec, nsec) ==
    LET q == IF nsec < 0 THEN sec - 1 ELSE sec
        r == IF nsec < 0 THEN nsec + NANOS_PER_SEC ELSE nsec
    IN  <<q \div NANOS_PER_SEC, q % NANOS_PER_SEC, r>>

\* Whether sec * NANOS_PER_SEC + nsec is negative.
WNegative(sec, nsec) == sec < 0 \/ (sec = 0 /\ nsec < 0)

\* The magnitude of sec * NANOS_PER_SEC + nsec.
WMagnitude(sec, nsec) ==
    IF WNegative(sec, nsec) THEN WNanos(-sec, -nsec) ELSE WNanos(sec, nsec)

\* Whether the product elapsed.tv_sec * NANOS_PER_SEC or the sum with
\* elapsed.tv_nsec leaves the range of the signed type it is computed in.
Overflows(sec, nsec) ==
    \/ WLess(LONG_MAX, WMagnitude(sec, 0))
    \/ WLess(LONG_MAX, WMagnitude(sec, nsec))

\* A comparison that takes the size of a negative sum for its value.
ToUnsigned_magnitude(sec, nsec) == WMagnitude(sec, nsec)

\* The signed sum converted to uint64_t for the comparison with wait_time.
ToUnsigned(sec, nsec) ==
    IF WNegative(sec, nsec)
    THEN WSub(ULONG_MODULUS, WMagnitude(sec, nsec))
    ELSE WMagnitude(sec, nsec)

\* The values check_timer can return when the sum is computed at the
\* width of the machine types.  A signed overflow is undefined: either
\* answer may come out.
check_timer_long(start, cur, wait) ==
    LET elapsed == [tv_sec  |-> cur.tv_sec - start.tv_sec,
                    tv_nsec |-> cur.tv_nsec - start.tv_nsec]
    IN  IF Overflows(elapsed.tv_sec, elapsed.tv_nsec)
        THEN BOOLEAN
        ELSE {~WLess(ToUnsigned(elapsed.tv_sec, elapsed.tv_nsec), wait)}

\* Readings a day and some sixty-three years apart, at the first and the
\* last nanosecond of the second.
LongInstants ==
    [tv_sec : {0, 86400, 2000000000}, tv_nsec : {0, NANOS_PER_SEC - 1}]

\* Thresholds: 0, the frame period, the nanoseconds of a day and their
\* neighbours, the largest value of long, 2^64 less the nanoseconds of a
\* second but one, and the largest value of uint64_t.
LongWaits ==
    { <<0, 0, 0>>, <<0, 0, nanos_per_frame>>,
      <<0, 86399, NANOS_PER_SEC - 1>>, <<0, 86400, 0>>, <<0, 86400, 1>>,
      LONG_MAX, <<18, 446744072, 709551617>>,
      <<18, 446744073, 709551615>> }

\* CLOCK_REALTIME moves to another of the long readings.
long_clock_step ==
    /\ pc = "timer"
    /\ \E t \in LongInstants \ {clock} : clock' = t
    /\ tlast' = "clock"
    /\ UNCHANGED <<pc, proc, ub, edVars, mnVars, stVars, fsVars, my_timer,
                   prev_timer, current,
                   wait_time, answer, errlog>>

\* check_timer(my_timer, wait) with the sum computed at machine width.
check_timer_wide ==
    /\ pc = "timer"
    /\ my_timer # NoInstant
    /\ \E w \in LongWaits :
        /\ wait_time' = w
        /\ \/ /\ current' = clock_gettime(current, clock)
              /\ tlast' = "check"
           \/ /\ \E g \in LongInstants : current' = g
              /\ tlast' = "check_failed"
        /\ answer' \in check_timer_long(my_timer, current', w)
        /\ ub' = (ub \/ Overflows(current'.tv_sec - my_timer.tv_sec,
                                  current'.tv_nsec - my_timer.tv_nsec))
    /\ my_timer' = check_timer_caller(my_timer, current')
    /\ UNCHANGED <<pc, proc, edVars, mnVars, stVars, fsVars, clock,
                   prev_timer, errlog>>

\* A timer on a clock whose readings are up to decades apart, first read
\* in second 0.
InitLong ==
    /\ InitTimer
    /\ clock \in LongInstants

NextLong ==
    \/ long_clock_step
    \/ start_timer
    \/ check_timer_wide

SpecLong == InitLong /\ [][NextLong]_vars

(* ------------------------- the line editor ---------------------------- *)

\* scans is called on a device in any settings.
InitEditor ==
    /\ MainIdle
    /\ StrIdle
    /\ FileIdle
    /\ pc = "entry"
    /\ proc = "running"
    /\ buf = <<>>
    /\ btemp = <<>>
    /\ userin = 0
    /\ shown = <<>>
    /\ result = <<>>
    /\ ub = FALSE
    /\ keys = <<>>
    /\ term \in DeviceSettings
    /\ old = ZeroTermios
    /\ ch = 0
    /\ pre = term
    /\ calls = <<>>
    /\ diag = <<>>
    /\ heap = EmptyHeap
    /\ clock = [tv_sec |-> 0, tv_nsec |-> 0]
    /\ my_timer = NoInstant
    /\ prev_timer = NoInstant
    /\ current = NoInstant
    /\ wait_time = 0
    /\ answer = FALSE
    /\ tlast = "none"
    /\ errlog = <<>>

NextEditor ==
    \/ scans_init
    \/ fprintf_clear
    \/ scanc_tcgetattr
    \/ scanc_setraw
    \/ scanc_read
    \/ scanc_restore
    \/ scans_backspace
    \/ scans_enter
    \/ scans_default

SpecEditor == InitEditor /\ [][NextEditor]_vars

(* ------------------------------- main --------------------------------- *)

\* Number of times the clock advances while main is followed.
MaxTicks == 6

\* The steps the clock advances by: the frame period, and one nanosecond
\* less.
TickNanos == {nanos_per_frame - 1, nanos_per_frame}

\* The instant d nanoseconds after t, normalised.
Advance(t, d) ==
    LET n == t.tv_nsec + d
    IN  [tv_sec  |-> t.tv_sec + n \div NANOS_PER_SEC,
         tv_nsec |-> n % NANOS_PER_SEC]

\* The readings the clock gives when main begins: the start of a second,
\* and one frame period before the end of one.
MainClocks ==
    {[tv_sec |-> 0, tv_nsec |-> 0],
     [tv_sec |-> 0, tv_nsec |-> NANOS_PER_SEC - nanos_per_frame]}

\* The names scans hands to main.
Names == {<<>>, <<97>>}

\* A call of timestamp() that ends in the way o.
timestamp_call(o) ==
    \E t \in BOOLEAN, v \in BOOLEAN :
        /\ o \in timestamp_ends(t, v)
        /\ tcall' = [time_ok |-> t, conv_ok |-> v]
        /\ tstamp' = o

\* What a call of timestamp() that ended in the way o does to the process
\* when its caller goes on to write msg and exit(EXIT_FAILURE).
timestamp_exit(o, msg) ==
    /\ pc' = "halt"
    /\ proc' = IF o = "killed" THEN "crashed" ELSE "exit_failure"
    /\ ub' = (ub \/ o \in {"killed", "stamp"})
    /\ errlog' = CASE o = "no_time" -> Append(errlog, "timestamp: no time")
                   [] o = "no_string" ->
                          Append(errlog, "timestamp: no string")
                   [] o = "killed" -> errlog
                   [] o = "stamp" -> Append(errlog, msg)

\* fprintf(stderr, "[ %s ] ERROR: ...", timestamp(), ...);
\* exit(EXIT_FAILURE);
die(msg) ==
    /\ failed' = TRUE
    /\ \E o \in timestamp : timestamp_call(o) /\ timestamp_exit(o, msg)

\* A main that asks for the name again while it polls the timer.
main_scans_again ==
    /\ pc \in {"main", "poll"}
    /\ \E n \in Names : result' = n /\ keys' = keys \o n \o <<NEWLINE>>
    /\ pc' = IF pc = "main" THEN "openfs" ELSE pc
    /\ UNCHANGED <<proc, ub, buf, btemp, userin, shown, term, old, ch,
                   pre, calls, diag>>
    /\ UNCHANGED <<heap, tmVars, mnVars, stVars, fsVars>>

\* scans(&userin, "Write a name for the file: ") as one step, from the
\* call to the return: the chars of a name and Enter are read and the
\* name is handed to main.
main_scans ==
    /\ pc = "main"
    /\ \E n \in Names : result' = n /\ keys' = n \o <<NEWLINE>>
    /\ pc' = "openfs"
    /\ UNCHANGED <<proc, ub, buf, btemp, userin, shown, term, old, ch,
                   pre, calls, diag>>
    /\ UNCHANGED <<heap, tmVars, mnVars, stVars, fsVars>>

\* sfmt(&filename, "%s.txt", userin); fs = openfs(filename, "w");
\* is_running = true;
main_openfs ==
    /\ pc = "openfs"
    /\ \/ /\ fs' = "open"
          /\ is_running' = TRUE
          /\ pc' = "start"
          /\ UNCHANGED <<proc, ub, errlog, tcall, tstamp, failed>>
       \/ /\ die("openfs")
          /\ UNCHANGED <<fs, is_running>>
    /\ UNCHANGED <<edVars, clock, my_timer, prev_timer, current, wait_time,
                   answer, tlast, framecount, file, closes, ticks>>
    /\ UNCHANGED <<stVars, fsVars>>

\* start_timer(&my_timer) called from main, which goes on at next.
main_start_timer(next) ==
    /\ prev_timer' = my_timer
    /\ \/ /\ my_timer' = clock_gettime(my_timer, clock)
          /\ tlast' = "start"
          /\ pc' = next
          /\ UNCHANGED <<proc, ub, errlog, tcall, tstamp, failed>>
       \/ /\ my_timer' = my_timer
          /\ tlast' = "start_failed"
          /\ die("start_timer")
    /\ UNCHANGED <<edVars, clock, current, wait_time, answer, framecount,
                   is_running, fs, file, closes, ticks>>
    /\ UNCHANGED <<stVars, fsVars>>

\* start_timer(&my_timer); framecount = 0;
main_first_start ==
    /\ pc = "start"
    /\ main_start_timer("poll")

\* A loop that runs the frame body after every poll.
AfterPoll_always(a) == "frame"

\* Where main goes after check_timer returned a: into the frame body, or
\* back to the test of the loop.
AfterPoll(a) == IF a THEN "frame" ELSE "poll"

\* while (is_running) if (check_timer(my_timer, nanos_per_frame))
main_poll ==
    /\ pc = "poll"
    /\ is_running
    /\ wait_time' = nanos_per_frame
    /\ \/ /\ current' = clock_gettime(current, clock)
          /\ tlast' = "check"
          /\ failed' = failed
       \/ /\ \E g \in Instants : current' = g
          /\ tlast' = "check_failed"
          /\ failed' = TRUE
    /\ answer' = check_timer_result(my_timer, current', nanos_per_frame)
    /\ my_timer' = check_timer_caller(my_timer, current')
    /\ pc' = AfterPoll(answer')
    /\ UNCHANGED <<proc, ub, edVars, clock, prev_timer, errlog, framecount,
                   is_running, fs, file, closes, ticks, tcall, tstamp>>
    /\ UNCHANGED <<stVars, fsVars>>

\* framecount++; sfmt(&filetext, "Frame number %d at %s\n", framecount,
\* (tstamp = timestamp())); writefss(fs, filetext); fprintf(stdout, ...);
\* if (framecount == 5) is_running = false;
main_frame ==
    /\ pc = "frame"
    /\ framecount' = framecount + 1
    /\ \E o \in timestamp :
        /\ timestamp_call(o)
        /\ IF o = "stamp"
           THEN /\ file' = Append(file, framecount')
                /\ is_running' = IF framecount' = 5 THEN FALSE
                                 ELSE is_running
                /\ pc' = "restart"
                /\ ub' = TRUE
                /\ UNCHANGED <<proc, errlog, failed>>
           ELSE /\ timestamp_exit(o, "")
                /\ failed' = (failed \/ o # "killed")
                /\ UNCHANGED <<file, is_running>>
    /\ UNCHANGED <<edVars, clock, my_timer, prev_timer, current, wait_time,
                   answer, tlast, fs, closes, ticks>>
    /\ UNCHANGED <<stVars, fsVars>>

\* start_timer(&my_timer) at the end of the frame body.
main_restart ==
    /\ pc = "restart"
    /\ main_start_timer("poll")

\* The loop has ended: closefs(fs); fprintf(stdout, "Please review ...");
\* free(filename); exit(EXIT_SUCCESS);
main_closefs ==
    /\ pc = "poll"
    /\ ~is_running
    /\ closes' = closes + 1
    /\ fs' = "closed"
    /\ \/ /\ proc' = "exit_success"
          /\ pc' = "halt"
          /\ UNCHANGED <<ub, errlog, tcall, tstamp, failed>>
       \/ die("closefs")
    /\ UNCHANGED <<edVars, clock, my_timer, prev_timer, current, wait_time,
                   answer, tlast, framecount, is_running, file, ticks>>
    /\ UNCHANGED <<stVars, fsVars>>

\* Time passes while main polls and while it runs a frame body:
\* CLOCK_REALTIME advances.
main_tick ==
    /\ pc \in {"poll", "restart"}
    /\ ticks < MaxTicks
    /\ \E d \in TickNanos : clock' = Advance(clock, d)
    /\ ticks' = ticks + 1
    /\ UNCHANGED <<pc, proc, ub, edVars, my_timer, prev_timer, current,
                   wait_time, answer, tlast, errlog, framecount, is_running,
                   fs, file, closes, tcall, tstamp, failed>>
    /\ UNCHANGED <<stVars, fsVars>>

\* main is entered.
InitMain ==
    /\ MainIdle
    /\ StrIdle
    /\ FileIdle
    /\ pc = "main"
    /\ proc = "running"
    /\ ub = FALSE
    /\ buf = <<>>
    /\ btemp = <<>>
    /\ userin = 0
    /\ shown = <<>>
    /\ result = <<>>
    /\ keys = <<>>
    /\ term \in {t \in DeviceSettings : t.icanon /\ t.echo /\ t.vmin = 1
                                        /\ t.vtime = 0}
    /\ old = ZeroTermios
    /\ ch = 0
    /\ pre = term
    /\ calls = <<>>
    /\ diag = <<>>
    /\ heap = EmptyHeap
    /\ clock \in MainClocks
    /\ my_timer = NoInstant
    /\ prev_timer = NoInstant
    /\ current = NoInstant
    /\ wait_time = 0
    /\ answer = FALSE
    /\ tlast = "none"
    /\ errlog = <<>>

NextMain ==
    \/ main_scans
    \/ main_openfs
    \/ main_first_start
    \/ main_poll
    \/ main_frame
    \/ main_restart
    \/ main_closefs
    \/ main_tick

SpecMain == InitMain /\ [][NextMain]_vars

(* ------------------------------ readfsc ------------------------------- *)

\* Length of the longest file read.
MaxStream == 3

\* The value fgetc returns at end of file and on error.
EOF == -1

\* Bytes a file holds: NUL, 'A' and 0xFF.
FileBytes == {0, 65, 255}

\* The files read.
Streams == UNION {[1..n -> FileBytes] : n \in 0..MaxStream}

\* No editor is running.
EditorIdle ==
    /\ buf = <<>>
    /\ btemp = <<>>
    /\ userin = 0
    /\ shown = <<>>
    /\ result = <<>>
    /\ keys = <<>>
    /\ term \in {t \in DeviceSettings : t.icanon /\ t.echo /\ t.vmin = 1
                                        /\ t.vtime = 0}
    /\ old = ZeroTermios
    /\ ch = 0
    /\ pre = term
    /\ calls = <<>>
    /\ diag = <<>>
    /\ heap = EmptyHeap

\* No timer has been started.
TimerIdle ==
    /\ clock = [tv_sec |-> 0, tv_nsec |-> 0]
    /\ my_timer = NoInstant
    /\ prev_timer = NoInstant
    /\ current = NoInstant
    /\ wait_time = 0
    /\ answer = FALSE
    /\ tlast = "none"
    /\ errlog = <<>>

\* The int v converted to char by the assignment *buf = v, as the
\* comparison with EOF then reads it back: a signed char holds
\* -128..127, an unsigned char 0..255.
ToChar(v) ==
    LET low == v % 256
    IN  IF char_signed /\ low > 127 THEN low - 256 ELSE low

\* readfsc(fs, &cbuf): fgetc delivers the next byte, or EOF at the end of
\* the file, or EOF with the error indicator set when the read fails.
readfsc ==
    /\ pc = "file"
    /\ \E err \in BOOLEAN :
        /\ ferr' = err
        /\ fgot' = IF err \/ fpos = Len(stream) THEN EOF
                   ELSE stream[fpos + 1]
        /\ fpos' = IF err \/ fpos = Len(stream) THEN fpos ELSE fpos + 1
    /\ cbuf' = ToChar(fgot')
    /\ IF cbuf' # EOF
       THEN /\ ret' = "SUCCESS"
            /\ UNCHANGED <<pc, proc, ub, errlog, tcall, tstamp, failed>>
       ELSE IF ~ferr'
       THEN /\ ret' = "END_OF_FILE"
            /\ UNCHANGED <<pc, proc, ub, errlog, tcall, tstamp, failed>>
       ELSE /\ ret' = "exit"
            /\ die("readfsc")
    /\ UNCHANGED <<edVars, clock, my_timer, prev_timer, current, wait_time,
                   answer, tlast, framecount, is_running, fs, file, closes,
                   ticks, stVars, stream, char_signed>>

\* A caller reads a file char by char, in a build of either signedness
\* of char.
InitFile ==
    /\ EditorIdle
    /\ TimerIdle
    /\ MainIdle
    /\ StrIdle
    /\ pc = "file"
    /\ proc = "running"
    /\ ub = FALSE
    /\ stream \in Streams
    /\ fpos = 0
    /\ ferr = FALSE
    /\ cbuf = 0
    /\ fgot = 0
    /\ ret = "none"
    /\ char_signed \in BOOLEAN

NextFile ==
    \/ readfsc

SpecFile == InitFile /\ [][NextFile]_vars

(* ------------------------- sdelelem, sdelchar ------------------------- *)

\* Length of the longest string handed to sdelelem and sdelchar.
MaxLen == 3

\* The characters of those strings: 'a' and 'b'.
Chars == {97, 98}

\* The strings handed to sdelelem and sdelchar.
Strs == UNION {[1..n -> Chars] : n \in 0..MaxLen}

\* What sdelelem(sp, e) makes of the block b: the process with the new
\* block.  When no store fell outside to_elem and from_elem they are
\* joined by sfmt(sp, "%s%s", to_elem, from_elem), cells nobody wrote
\* holding any byte.  When one did, the behaviour is undefined: the
\* process is killed, or it goes on with whatever the damaged heap yields.
sdelelem_ends(b, e) ==
    LET r == sdelelem(b, e)
    IN  IF r.oob
        THEN {[proc |-> "crashed", ub |-> TRUE, sp |-> b]}
             \cup {[proc |-> "running", ub |-> TRUE, sp |-> g \o <<0>>] :
                       g \in GarbageStrs}
        ELSE {[proc |-> "running", ub |-> FALSE,
               sp |-> sfmt_ss(t \o <<0>>, f \o <<0>>)] :
                 t \in ReadStr(r.to_elem), f \in ReadStr(r.from_elem)}

\* sdelelem(&sp, elem)
sdelelem_call ==
    /\ pc = "sdelelem"
    /\ \E e \in sdelelem_ends(sp, elem) :
        /\ sp' = e.sp
        /\ ub' = (ub \/ e.ub)
        /\ proc' = e.proc
        /\ pc' = IF e.proc = "running" THEN "sdelelem_done"
                 ELSE "sdelelem_killed"
    /\ UNCHANGED <<edVars, tmVars, mnVars, fsVars, sp0, elem, remove, cidx>>

\* sdelchar(&sp, remove), one iteration of its loop: when (*sp)[c] is the
\* char to remove, sdelelem(sp, c) is called and c-- undoes the c++ of
\* the loop (from 0 through UINT_MAX back to 0).
sdelchar_step ==
    /\ pc = "sdelchar"
    /\ ULess(cidx, strlen(sp))
    /\ IF sp[cidx + 1] = remove
       THEN /\ \E e \in sdelelem_ends(sp, cidx) :
                /\ sp' = e.sp
                /\ ub' = (ub \/ e.ub)
                /\ proc' = e.proc
                /\ pc' = IF e.proc = "running" THEN "sdelchar"
                         ELSE "sdelchar_killed"
            /\ cidx' = (cidx - 1) + 1
       ELSE /\ cidx' = cidx + 1
            /\ UNCHANGED <<pc, proc, ub, sp>>
    /\ UNCHANGED <<edVars, tmVars, mnVars, fsVars, sp0, elem, remove>>

\* sdelchar: c < strlen(*sp) is false and the function returns.
sdelchar_return ==
    /\ pc = "sdelchar"
    /\ ~ULess(cidx, strlen(sp))
    /\ pc' = "sdelchar_done"
    /\ UNCHANGED <<proc, ub, edVars, tmVars, mnVars, stVars, fsVars>>

\* sdelelem is called on a string with any index up to its length, or
\* sdelchar with any char.
InitStr ==
    /\ EditorIdle
    /\ TimerIdle
    /\ MainIdle
    /\ FileIdle
    /\ proc = "running"
    /\ ub = FALSE
    /\ sp0 \in Strs
    /\ sp = sfmt_s(sp0 \o <<0>>)
    /\ cidx = 0
    /\ \/ /\ pc = "sdelelem"
          /\ elem \in 0..MaxLen
          /\ remove = 0
       \/ /\ pc = "sdelchar"
          /\ elem = 0
          /\ remove \in Chars

NextStr ==
    \/ sdelelem_call
    \/ sdelchar_step
    \/ sdelchar_return

SpecStr == InitStr /\ [][NextStr]_vars

(* ============================== claims ================================ *)

\* The members of a sequence.
Range(q) == {q[i] : i \in 1..Len(q)}

\* The line a sequence of keystrokes edits: each byte other than 127 is
\* appended, each 127 removes the last character, if there is one.
RECURSIVE EditLine(_)
EditLine(ks) ==
    IF ks = <<>> THEN <<>>
    ELSE LET line == EditLine(SubSeq(ks, 1, Len(ks) - 1))
             k    == ks[Len(ks)]
         IN  IF k # BACKSPACE THEN Append(line, k)
             ELSE IF line = <<>> THEN <<>>
             ELSE SubSeq(line, 1, Len(line) - 1)

\* The keys read before Enter.
Typed == SubSeq(keys, 1, Len(keys) - 1)

\* C1: when scans returns, after keystrokes of which at least one was an
\* ordinary non-zero byte and none was read with the buffer damaged, *buf
\* holds the line the keystrokes before Enter edit, whatever the last key
\* before Enter was.
C1_ResultIsEditedLine ==
    ( /\ pc = "returned"
      /\ ~ub
      /\ 0 \notin Range(keys)
      /\ \E i \in 1..Len(keys) : Dispatch(keys[i]) = "default" )
    => result = EditLine(Typed)

\* C2: a backspace dispatched on an empty line buffer leaves the buffer
\* empty, touches no memory outside a block, and the loop goes on to the
\* next prompt.
C2_EmptyBackspaceIsNoop ==
    [][ ( /\ pc = "dispatch"
          /\ Dispatch(userin) = "backspace"
          /\ CStr(btemp) = <<>>
          /\ ~ub )
        => ( /\ CStr(btemp') = <<>>
             /\ ~ub'
             /\ proc' = "running"
             /\ pc' = "prompt" ) ]_vars

\* C3: when the first byte read is a newline, the string returned in *buf
\* is the empty string.
C3_EnterAloneIsEmpty ==
    (pc = "returned" /\ keys = <<NEWLINE>>) => result = <<>>

\* C4: when scanc_nowait has returned, the line-discipline settings of the
\* device (ICANON, ECHO, VMIN, VTIME) are those it had when the call began.
C4_SettingsRestored ==
    pc = "dispatch" => Discipline(term) = Discipline(pre)

\* Nanoseconds since the start of second 0.
Abs(t) == t.tv_sec * NANOS_PER_SEC + t.tv_nsec

\* A query has been answered and nothing has happened since.
Queried == tlast \in {"check", "check_failed"}

\* C5: for normalised instants with start not later than current,
\* check_timer returns true exactly when the nanoseconds from start to
\* current are at least the threshold.
C5_ElapsedIffAtLeast ==
    ( /\ Queried
      /\ Normalised(my_timer)
      /\ Normalised(current)
      /\ NotLater(my_timer, current) )
    => (answer = (Abs(current) - Abs(my_timer) >= wait_time))

\* C5 witness: a query at the threshold exactly, across a second boundary
\* (current.tv_nsec < start.tv_nsec), answered true.
C5_Witness ==
    /\ tlast = "check"
    /\ current.tv_nsec < my_timer.tv_nsec
    /\ NotLater(my_timer, current)
    /\ wait_time > 0
    /\ Abs(current) - Abs(my_timer) = wait_time
    /\ answer = TRUE

\* The system calls of one scanc_nowait call.
ScancCalls ==
    <<"tcgetattr", "tcsetattr TCSANOW", "read", "tcsetattr TCSADRAIN">>

\* The names of the calls in a log.
Made(log) == [i \in 1..Len(log) |-> log[i].call]

\* The calls in a log that failed.
Failed(log) == {log[i].call : i \in {j \in 1..Len(log) : ~log[j].ok}}

\* C6: the calls a scanc_nowait call has made are always the first ones of
\* tcgetattr, tcsetattr(TCSANOW), read, tcsetattr(TCSADRAIN), and it has
\* made all four, each once, when it returns.
C6_SaveSwitchReadRestore ==
    /\ \E n \in 0..Len(ScancCalls) : Made(calls) = SubSeq(ScancCalls, 1, n)
    /\ pc = "dispatch" => Made(calls) = ScancCalls

\* C6 witness: scanc_nowait has returned from a call in which tcgetattr,
\* the mode switch and the read all failed.
C6_Witness ==
    /\ pc = "dispatch"
    /\ Made(calls) = ScancCalls
    /\ Failed(calls) = {"tcgetattr", "tcsetattr TCSANOW", "read"}

\* C7: a start_timer whose clock read succeeded has stored the reading;
\* one whose clock read failed has written a diagnostic and ended the
\* process with a failure status.
C7_StartStoresOrExits ==
    /\ tlast = "start" => (my_timer = clock /\ proc = "running")
    /\ tlast = "start_failed" =>
           (proc = "exit_failure" /\ errlog # <<>> /\ pc = "halt")

\* The read of the current scanc_nowait call failed.
ReadFailed == "read" \in Failed(calls)

\* The message perror is given when a call fails.
Diagnostic(call) ==
    CASE call = "tcgetattr" -> "tcsetattr()"
      [] call = "tcsetattr TCSANOW" -> "tcsetattr ICANON"
      [] call = "read" -> "read()"
      [] call = "tcsetattr TCSADRAIN" -> "tcsetattr ~ICANON"

\* C8: no step of scanc_nowait ends the process, and each call of it that
\* failed has its diagnostic written; a scanc_nowait whose read failed
\* returns 0; and scans, given the 0 of a failed read, goes on to the next
\* prompt.
C8_FailuresAreNotFatal ==
    [][ /\ pc \in {"tcgetattr", "setraw", "read", "restore"} =>
            /\ proc' = "running"
            /\ pc' \in {"setraw", "read", "restore", "dispatch"}
            /\ Range(diag') = {Diagnostic(c) : c \in Failed(calls')}
        /\ (pc = "restore" /\ ReadFailed) => userin' = 0
        /\ (pc = "dispatch" /\ ReadFailed) =>
            (proc' = "running" /\ pc' = "prompt") ]_vars

\* C8 witness: scans is back at its prompt after a call in which tcgetattr
\* and the read failed.
C8_Witness ==
    /\ pc = "tcgetattr"
    /\ proc = "running"
    /\ Failed(calls) = {"tcgetattr", "read"}
    /\ Range(diag) = {"tcsetattr()", "read()"}
    /\ keys # <<>>
    /\ keys[Len(keys)] = 0

\* C9 as stated: every byte that is neither 127 nor newline, the zero byte
\* included, makes the line buffer one character longer, with that byte
\* last.
C9_EveryByteAppended ==
    [][ (pc = "dispatch" /\ Dispatch(userin) = "default")
        => CStr(btemp') = Append(CStr(btemp), userin) ]_vars

\* C9 amended: every byte that is neither 127, newline nor zero makes the
\* string in the line buffer one character longer, with that byte last and
\* the earlier characters unchanged; the zero byte leaves the string as it
\* was; in both cases *buf holds the same string as btemp afterwards.
C9_NonZeroByteAppended ==
    [][ (pc = "dispatch" /\ Dispatch(userin) = "default")
        => /\ CStr(btemp') =
                 IF userin = 0 THEN CStr(btemp)
                 ELSE Append(CStr(btemp), userin)
           /\ CStr(buf') = CStr(btemp') ]_vars

\* C9 witness: after 'a', a zero byte and ^A the line buffer holds 'a' and
\* ^A.
C9_Witness ==
    /\ pc = "prompt"
    /\ keys = <<97, 0, 1>>
    /\ CStr(btemp) = <<97, 1>>

\* C10: a query with threshold 0 is answered true; a query that reads the
\* very instant the timer holds is answered false for every threshold
\* above 0; and a start_timer that returned has put the present reading in
\* the timer, whatever the timer held.
C10_StartThenQuery ==
    /\ (Queried /\ wait_time = 0) => answer = TRUE
    /\ (tlast = "check" /\ current = my_timer /\ wait_time > 0)
           => answer = FALSE
    /\ tlast = "start" => my_timer = clock

\* C10 witness: the timer was started a second time on a later reading,
\* and a query of the frame period made at that reading is answered false.
C10_Witness ==
    /\ tlast = "check"
    /\ prev_timer # NoInstant
    /\ prev_timer # my_timer
    /\ current = my_timer
    /\ wait_time = nanos_per_frame
    /\ answer = FALSE

\* C11: a check_timer call leaves the caller's timer holding the instant
\* it held before the call, whether or not its clock read succeeded, so
\* every query made until the next start_timer is measured from the
\* instant that start_timer stored.
C11_QueryKeepsTimer ==
    [][ Queried' => my_timer' = my_timer ]_vars

\* C11 witness: the timer was started once, the clock moved on, and a
\* query that read the later instant was answered true with the timer
\* still holding an earlier instant.
C11_Witness ==
    /\ tlast = "check"
    /\ prev_timer = NoInstant
    /\ my_timer \in Instants
    /\ current # my_timer
    /\ NotLater(my_timer, current)
    /\ wait_time > 0
    /\ answer = TRUE

\* The exact nanoseconds from the timer's instant to the reading of the
\* last query, as digits.
ExactElapsed ==
    WNanos(current.tv_sec - my_timer.tv_sec,
           current.tv_nsec - my_timer.tv_nsec)

\* The nanoseconds of twenty-four hours.
DAY == <<0, 86400, 0>>

\* C12: for every query whose reading is from 0 ns up to twenty-four
\* hours (and beyond, up to decades) after the timer's instant, and every
\* threshold up to the largest uint64_t, the scaled sum does not leave the
\* range of its type and the answer is the one exact integer arithmetic
\* gives: true exactly when the elapsed nanoseconds are at least the
\* threshold.
C12_NoOverflowWithinDay ==
    ( /\ Queried
      /\ NotLater(my_timer, current) )
    => ( /\ ~ub
         /\ ~Overflows(current.tv_sec - my_timer.tv_sec,
                       current.tv_nsec - my_timer.tv_nsec)
         /\ answer = ~WLess(ExactElapsed, wait_time) )

\* C12 witness: a query made twenty-four hours to the nanosecond after the
\* start, with the threshold of twenty-four hours, answered true.
C12_Witness ==
    /\ tlast = "check"
    /\ my_timer = [tv_sec |-> 0, tv_nsec |-> NANOS_PER_SEC - 1]
    /\ current = [tv_sec |-> 86400, tv_nsec |-> NANOS_PER_SEC - 1]
    /\ wait_time = DAY
    /\ answer = TRUE
    /\ ~ub

C14_FailedQueryIsFatal ==
    tlast = "check_failed" =>
        (proc = "exit_failure" /\ pc = "halt" /\ errlog # <<>>)

\* C15: from the moment fprintf_clear has returned until the raw read is
\* issued, in every iteration of the loop of scans, the text last drawn on
\* the prompt line is the prompt followed by the string the line buffer
\* holds, which is empty in the first iteration.
C15_DrawnIsPromptAndBuffer ==
    pc \in {"tcgetattr", "setraw", "read"} =>
        /\ shown = CStr(prompt) \o CStr(btemp)
        /\ keys = <<>> => shown = CStr(prompt)

\* C15 witness: after 'a', backspace and ^A the raw read is about to be
\* issued with the prompt and ^A drawn.
C15_Witness ==
    /\ pc = "read"
    /\ keys = <<97, BACKSPACE, 1>>
    /\ CStr(btemp) = <<1>>
    /\ shown = <<62, 32, 1>>

\* C16: when a readfsc call is over, a byte that fgetc read, whatever its
\* value in 0..255, has been stored and answered with true; false has been
\* returned only with the file at its end and no byte read; and a read
\* error has ended the process unsuccessfully.
C16_ReadfscByteOrEnd ==
    ret # "none" =>
        /\ fgot \in 0..255 => (ret = "SUCCESS" /\ cbuf % 256 = fgot)
        /\ ret = "END_OF_FILE" =>
               (fgot = EOF /\ ~ferr /\ fpos = Len(stream))
        /\ ret = "SUCCESS" => fgot \in 0..255
        /\ (fgot = EOF /\ ferr) =>
               (ret = "exit" /\ proc \in {"exit_failure", "crashed"})

\* A string without its element i (counted from 0).
Without(q, i) == SubSeq(q, 1, i) \o SubSeq(q, i + 2, Len(q))

\* C17: a call sdelelem(&s, elem) with 0 <= elem < length(s) returns with
\* s holding the characters before elem followed by those after it, one
\* fewer than before, and has made no access outside an allocated block.
C17_SdelelemRemovesOne ==
    (pc \in {"sdelelem_done", "sdelelem_killed"} /\ elem < Len(sp0))
    => ( /\ pc = "sdelelem_done"
         /\ ~ub
         /\ CStr(sp) = Without(sp0, elem) )

\* C18: a call sdelchar(&s, r) returns with s holding the characters of
\* the original other than r, in their order.
C18_SdelcharRemovesAll ==
    pc \in {"sdelchar_done", "sdelchar_killed"}
    => ( /\ pc = "sdelchar_done"
         /\ CStr(sp) = SelectSeq(sp0, LAMBDA x : x # remove) )

\* C19: in main the frame body is entered only from a poll in which
\* check_timer returned true, and framecount grows and a frame line is
\* written only in the frame body; the frame body is left only into
\* start_timer, which stores the present reading before the next poll (or
\* ends the process); and, the clock never going back, a frame body
\* entered on a poll that read the clock begins at least nanos_per_frame
\* nanoseconds after the instant the preceding start_timer stored.
C19_FramePacing ==
    /\ [](pc = "frame" =>
            /\ answer = TRUE
            /\ wait_time = nanos_per_frame
            /\ my_timer # NoInstant
            /\ tlast = "check" =>
                  /\ NotLater(current, clock)
                  /\ Abs(current) - Abs(my_timer) >= nanos_per_frame
                  /\ Abs(clock) - Abs(my_timer) >= nanos_per_frame)
    /\ [][ /\ (pc' = "frame" /\ pc # "frame") =>
                  (pc = "poll" /\ is_running /\ answer' = TRUE
                   /\ Queried')
           /\ (framecount' # framecount \/ file' # file) =>
                  (pc = "frame" /\ framecount' = framecount + 1)
           /\ (pc = "frame" /\ pc' # "frame") =>
                  pc' \in {"restart", "halt"}
           /\ (pc = "restart" /\ pc' # "restart") =>
                  \/ pc' = "poll" /\ tlast' = "start" /\ my_timer' = clock
                  \/ pc' = "halt" /\ tlast' = "start_failed"
           /\ (pc = "poll" /\ pc' = "poll") => my_timer' = my_timer ]_vars

\* C19 witness: the second frame body is entered on a poll that read the
\* clock exactly nanos_per_frame nanoseconds after the restart that ended
\* the first, across the boundary of a second.
C19_Witness ==
    /\ pc = "frame"
    /\ framecount = 1
    /\ tlast = "check"
    /\ prev_timer # NoInstant
    /\ current.tv_nsec < my_timer.tv_nsec
    /\ Abs(current) - Abs(my_timer) = nanos_per_frame
    /\ answer = TRUE

\* C20: in main framecount never exceeds 5 and the frame lines written
\* are those of frames 1, 2, ... in order; is_running is false in the loop
\* only with framecount at 5; the stream is closed at most once, and only
\* with the five frame lines written; and a process that has ended
\* without any library call having failed has run its five frames, closed
\* the stream and exited with success.
C20_FiveFramesThenClose ==
    /\ framecount <= 5
    /\ Len(file) <= framecount
    /\ file = [i \in 1..Len(file) |-> i]
    /\ (pc \in {"poll", "frame", "restart"} /\ ~is_running) =>
           framecount = 5
    /\ closes <= 1
    /\ fs = "closed" => (closes = 1 /\ file = <<1, 2, 3, 4, 5>>)
    /\ (pc = "halt" /\ ~failed) =>
           /\ proc = "exit_success"
           /\ framecount = 5
           /\ file = <<1, 2, 3, 4, 5>>
           /\ fs = "closed"

\* C21: in main the chars scans reads are read in one step, made before
\* the file is opened and before the timer is first started, and that step
\* is never made again; once the file is open or the timer started scans
\* has returned on Enter, and no step of the frame loop reads a char or
\* touches the settings of the input device.
C21_ScansOnceBeforeLoop ==
    /\ []((pc \in {"openfs", "start", "poll", "frame", "restart"}
            \/ fs # "none" \/ my_timer # NoInstant)
           => (keys # <<>> /\ keys[Len(keys)] = NEWLINE
               /\ NEWLINE \notin Range(SubSeq(keys, 1, Len(keys) - 1))))
    /\ [][ /\ (keys' # keys \/ result' # result) =>
                  (pc = "main" /\ keys = <<>> /\ fs = "none"
                   /\ my_timer = NoInstant /\ pc' = "openfs")
           /\ pc' = "main" => pc = "main"
           /\ term' = term
           /\ calls' = calls ]_vars

\* C21 witness: the third frame body is entered with the two chars scans
\* read before the loop still the only ones read.
C21_Witness ==
    /\ pc = "frame"
    /\ framecount = 2
    /\ fs = "open"
    /\ keys = <<97, NEWLINE>>
    /\ result = <<97>>

\* C22: scans leaves its loop only by returning, and returns only on
\* Enter: the process is never ended inside scans; when scans has
\* returned the last char read is the first newline of the input; once a
\* newline has been read nothing is read after it and scans is on its way
\* out; and each call of scanc_nowait that has returned made one read.
C22_ReturnsIffNewline ==
    /\ proc = "running"
    /\ pc # "halt"
    /\ pc = "returned" => (keys # <<>> /\ keys[Len(keys)] = NEWLINE)
    /\ NEWLINE \in Range(keys) =>
           /\ keys[Len(keys)] = NEWLINE
           /\ NEWLINE \notin Range(Typed)
           /\ pc \in {"restore", "dispatch", "returned"}
    /\ pc = "dispatch" =>
           Cardinality({i \in 1..Len(calls) : calls[i].call = "read"}) = 1

\* The nanoseconds by which the reading of the last query is earlier than
\* the timer's instant, as digits.
SteppedBack ==
    WNanos(my_timer.tv_sec - current.tv_sec,
           my_timer.tv_nsec - current.tv_nsec)

\* 2^63
TWO63 == <<9, 223372036, 854775808>>

C24_BlocksFreedOnce ==
    /\ ~ub
    /\ ~heap.twice
    /\ heap.lost = 0
    /\ pc \in {"prompt", "tcgetattr", "setraw", "read", "restore", "dispatch"}
           => heap.live = {"buf", "btemp"}
    /\ pc = "returned" => heap.live = {"buf"}

====
